---------------------------- MODULE Spec2Model ----------------------------
(***************************************************************************)
(* State machine of the Report Writing Studio front end                    *)
(* (fullstack-app/frontend/src/App.jsx): the page-level component App, its *)
(* React state, its event handlers, the continuations of its asynchronous  *)
(* calls (axios.post, FileReader) and the two pieces of environment it     *)
(* writes: localStorage['authToken'] and axios' default Authorization      *)
(* header.                                                                 *)
(*                                                                         *)
(* JavaScript strings are TLA+ strings (TLC evaluates Len, \o and SubSeq   *)
(* on them), so trim, join, String() and JSON.stringify are computed.      *)
(* null and undefined are the values Null and Undefined below.             *)
(***************************************************************************)
EXTENDS Integers, Sequences, FiniteSets, TLC

VARIABLES
    mode, recordingFile, transcript, transcriptFileName, meetingNotes,
    additionalInstructions, company,
    useAzure, selectedModel, verificationRounds, useLanggraph, compressAudio,
    loading, error, reportId, results, selectedVerificationRound,
    authUser, authPassword, authShowPassword, authToken,
    localStorage, axiosAuth,
    pending, reads

draftVars == <<mode, recordingFile, transcript, transcriptFileName,
               meetingNotes, additionalInstructions, company>>
optionVars == <<useAzure, selectedModel, verificationRounds, useLanggraph,
                compressAudio>>
resultVars == <<reportId, results, selectedVerificationRound>>
signInVars == <<authUser, authPassword, authShowPassword>>
credVars == <<authToken, localStorage, axiosAuth>>

vars == <<draftVars, optionVars, loading, error, resultVars, signInVars,
          credVars, pending, reads>>

---------------------------------------------------------------------------
(* Bounds of the model. *)

\* the weight (see Dirty) of the fields outside the company grid that differ
\* from their defaults at one time, file reads under way included
MaxDirty == 2
\* network calls outstanding at one time
MaxPending == 2
\* verification rounds in a mocked response
MaxRounds == 2

---------------------------------------------------------------------------
(* JavaScript values. *)

\* null and undefined where the program holds an object (results, a File, a
\* verification round)
Null == [js |-> "null"]
UndefinedObject == [js |-> "undefined"]

\* null and undefined where the program holds a string (a token, a header, a
\* detail message); no string the user or the service supplies equals them
NullString == "\\null"
Undefined == "\\undefined"

\* !!x of a string, null or undefined
Truthy(x) == x \notin {"", NullString, Undefined}

\* !!x of an object, null or undefined
TruthyObject(x) == x \notin {Null, UndefinedObject}

\* a || b
OrElse(a, b) == IF Truthy(a) THEN a ELSE b

WhiteSpace == {" ", "\t", "\n", "\r"}

RECURSIVE TrimStart(_)
TrimStart(s) ==
    IF Len(s) > 0 /\ SubSeq(s, 1, 1) \in WhiteSpace
    THEN TrimStart(SubSeq(s, 2, Len(s)))
    ELSE s

RECURSIVE TrimEnd(_)
TrimEnd(s) ==
    IF Len(s) > 0 /\ SubSeq(s, Len(s), Len(s)) \in WhiteSpace
    THEN TrimEnd(SubSeq(s, 1, Len(s) - 1))
    ELSE s

\* String.prototype.trim
Trim(s) == TrimEnd(TrimStart(s))

\* Array.prototype.join
RECURSIVE Join(_, _)
Join(xs, sep) ==
    IF Len(xs) = 0 THEN ""
    ELSE IF Len(xs) = 1 THEN xs[1]
    ELSE xs[1] \o sep \o Join(Tail(xs), sep)

\* String(b) of a boolean
BoolString(b) == IF b THEN "true" ELSE "false"


\* String(x) / template interpolation of a string or undefined
JsString(x) ==
    IF x = Undefined THEN "undefined" ELSE IF x = NullString THEN "null" ELSE x

---------------------------------------------------------------------------
(* Program constants and the values the environment supplies. *)

API_URL == "http://localhost:8000"

DefaultInstructions ==
    "Do not focus on the company's name in the transcript. Use the same company name as given in the company information."

DefaultCompany ==
    [company_name |-> "", country |-> "Finland", consultation_date |-> "",
     experts |-> "Umair Ali Khan, Janne Kauttonen", customer_manager |-> "",
     consultation_type |-> "Regular"]

DefaultModel == "gpt-5.1"

DefaultVerificationRounds == 5

CompanyFields ==
    {"company_name", "country", "consultation_date", "experts",
     "customer_manager", "consultation_type"}

\* the three <option>s of the model <select>
Models == {"gpt-4.1", "gpt-5.1", "gpt-5.2"}

\* what the user types into the company grid: <<field, value>>
CompanyInputs ==
    {<<"company_name", "Acme">>, <<"consultation_date", "11-03-2025">>,
     <<"customer_manager", "Jamie Park">>}

\* what the user pastes into the transcript textarea
TranscriptInputs == {"", " \n", "Hello world"}

NotesInputs == {"notes"}

InstructionInputs == {""}

\* event.target.value of the <input type="number">: a string
RoundsInputs == {"", "7"}

\* recordings the user can pick (File objects, known here by name)
RecordingFiles == {[name |-> "meeting.mp3"]}

\* transcript files the user can pick, with what FileReader reads from them
TranscriptFiles ==
    {[name |-> "f1.txt", text |-> "Hello world"],
     [name |-> "f2.txt", text |-> "second"]}

UserInputs == {" ", "alice"}

PasswordInputs == {"pw"}

\* localStorage['authToken'] when the page loads
StoredAtStartup == {NullString, "t1"}

\* access_token of a successful /auth/login response (undefined: none in it)
LoginTokens == {"t2", Undefined}

\* A failed call: err.response?.data?.detail and err.message
Failures ==
    {[detail |-> "Invalid or expired token",
      message |-> "Request failed with status code 401"],
     [detail |-> Undefined, message |-> "Network Error"]}

Digit(i) == SubSeq("0123456789", i + 1, i + 1)

\* The i-th verification round of a mocked response
VerificationRound(i) ==
    [score |-> 7 + i, summary |-> "summary " \o Digit(i),
     decision_explanation |-> "", issues |-> <<>>, strengths |-> <<>>]

RevisionEntry(i) == [revision_summary |-> "revision " \o Digit(i)]

\* response.data of a successful report call: n verification rounds and m
\* revision entries
ReportResponse(id, n, m) ==
    [report_id |-> id,
     results |-> [status |-> "done",
                  verification_history |-> [i \in 1..n |-> VerificationRound(i)],
                  revision_history |-> [i \in 1..m |-> RevisionEntry(i)]]]

\* response.data of a successful report call whose results carry no
\* revision_history at all: n verification rounds
ReportResponseBare(id, n) ==
    [report_id |-> id,
     results |-> [status |-> "done",
                  verification_history |-> [i \in 1..n |-> VerificationRound(i)]]]

\* the mocked responses: report r<n> with n verification rounds, each but the
\* last followed by a revision; r1, which has no revision, comes without a
\* revision_history
ReportResponses ==
    {IF n = 1
     THEN ReportResponseBare("r1", 1)
     ELSE ReportResponse("r" \o Digit(n), n, IF n = 0 THEN 0 ELSE n - 1) :
        n \in 0..MaxRounds}

---------------------------------------------------------------------------
(* Derived values of a render (App.jsx 52-64, 214-220). *)

required ==
    << <<"company_name", "Company name">>,
       <<"country", "Country">>,
       <<"consultation_date", "Consultation date">>,
       <<"experts", "Experts">>,
       <<"customer_manager", "Customer manager">>,
       <<"consultation_type", "Consultation type">> >>

\* a filter that tests the raw value, without trim()
IsMissingUntrimmed(profile, entry) == ~Truthy(profile[entry[1]])

IsMissing(profile, entry) == ~Truthy(Trim(profile[entry[1]]))

RECURSIVE FilterMissing(_, _)
FilterMissing(profile, entries) ==
    IF Len(entries) = 0 THEN <<>>
    ELSE IF IsMissing(profile, Head(entries))
         THEN <<Head(entries)>> \o FilterMissing(profile, Tail(entries))
         ELSE FilterMissing(profile, Tail(entries))

missingFields(profile) ==
    LET kept == FilterMissing(profile, required)
    IN  [i \in 1..Len(kept) |-> kept[i][2]]

verificationHistoryOf(res) ==
    IF TruthyObject(res) THEN res.verification_history ELSE <<>>

verificationHistory == verificationHistoryOf(results)

verificationRoundsCount == Len(verificationHistory)

latestVerificationOf(res) ==
    LET h == verificationHistoryOf(res)
    IN  IF Len(h) > 0 THEN h[Len(h)] ELSE UndefinedObject

latestVerification == latestVerificationOf(results)

\* a selection that falls back to the first round, not the latest
activeVerificationOfFirst(res, round) ==
    LET h == verificationHistoryOf(res)
    IN  IF round \in 1..Len(h) THEN h[round]
        ELSE IF Len(h) > 0 THEN h[1] ELSE UndefinedObject

\* a lookup that always shows the latest round
activeVerificationOfLatest(res, round) == latestVerificationOf(res)

activeVerificationOf(res, round) ==
    LET h == verificationHistoryOf(res)
    IN  IF round \in 1..Len(h) THEN h[round] ELSE latestVerificationOf(res)

activeVerification == activeVerificationOf(results, selectedVerificationRound)

\* a revision lookup that falls back to the latest entry, as the
\* verification lookup does
revisionSummaryOfLatest(res, round) ==
    IF ~TruthyObject(res) THEN Undefined
    ELSE IF "revision_history" \notin DOMAIN res THEN Undefined
    ELSE IF Len(res.revision_history) = 0 THEN Undefined
    ELSE IF round \notin 1..Len(res.revision_history)
    THEN res.revision_history[Len(res.revision_history)].revision_summary
    ELSE res.revision_history[round].revision_summary

\* line 752: results?.revision_history?.[round - 1]?.revision_summary
revisionSummaryOf(res, round) ==
    IF ~TruthyObject(res) THEN Undefined
    ELSE IF "revision_history" \notin DOMAIN res THEN Undefined
    ELSE IF round \notin 1..Len(res.revision_history) THEN Undefined
    ELSE res.revision_history[round].revision_summary

revisionSummary == revisionSummaryOf(results, selectedVerificationRound)

\* a render without the re-arming of line 222-224
RenderNotArming(header, token) == header

\* line 222-224: every render re-arms the default header from authToken
Render(header, token) ==
    IF Truthy(token) THEN "Bearer " \o token ELSE header

---------------------------------------------------------------------------
(* JavaScript numbers, as far as the rounds input needs them: a decimal    *)
(* num/den, or NaN.                                                        *)

NumberValue(n) == [type |-> "number", num |-> n, den |-> 1]

StringValue(s) == [type |-> "string", value |-> s]

NaN == [type |-> "number", num |-> 0, den |-> 0]

IsDigit(c) == \E i \in 0..9 : c = Digit(i)

DigitValue(c) == CHOOSE i \in 0..9 : c = Digit(i)

RECURSIVE AllDigits(_)
AllDigits(s) ==
    Len(s) = 0 \/ (IsDigit(SubSeq(s, 1, 1)) /\ AllDigits(SubSeq(s, 2, Len(s))))

RECURSIVE DigitsValue(_)
DigitsValue(s) ==
    IF Len(s) = 0 THEN 0
    ELSE 10 * DigitsValue(SubSeq(s, 1, Len(s) - 1))
         + DigitValue(SubSeq(s, Len(s), Len(s)))

RECURSIVE Pow10(_)
Pow10(k) == IF k = 0 THEN 1 ELSE 10 * Pow10(k - 1)

RECURSIVE IndexOfDot(_, _)
IndexOfDot(s, i) ==
    IF i > Len(s) THEN 0
    ELSE IF SubSeq(s, i, i) = "." THEN i ELSE IndexOfDot(s, i + 1)

\* Number(s) of a string: empty after trimming is 0, an unsigned decimal is
\* its value, anything else NaN
StringToNumber(s) ==
    LET t == Trim(s)
        dot == IndexOfDot(t, 1)
        whole == IF dot = 0 THEN t ELSE SubSeq(t, 1, dot - 1)
        frac == IF dot = 0 THEN "" ELSE SubSeq(t, dot + 1, Len(t))
    IN  IF t = "" THEN NumberValue(0)
        ELSE IF AllDigits(whole) /\ AllDigits(frac) /\ Len(whole) + Len(frac) > 0
             THEN [type |-> "number", num |-> DigitsValue(whole \o frac),
                   den |-> Pow10(Len(frac))]
             ELSE NaN

\* Number(v)
Number(v) == IF v.type = "number" THEN v ELSE StringToNumber(v.value)

RECURSIVE NatString(_)
NatString(n) ==
    IF n < 10 THEN Digit(n) ELSE NatString(n \div 10) \o Digit(n % 10)

\* String(v), for the whole numbers the state can hold
ValueString(v) == IF v.type = "string" THEN v.value ELSE NatString(v.num)

\* JSON.stringify of a string without characters to escape
JsonString(s) == "\"" \o s \o "\""

\* JSON.stringify(company): the keys in insertion order
JsonCompany(profile) ==
    "{" \o Join([i \in 1..Len(required) |->
                    JsonString(required[i][1]) \o ":"
                    \o JsonString(profile[required[i][1]])], ",") \o "}"

---------------------------------------------------------------------------
(* The state after construction (App.jsx 21-50) and its first render. *)

\* line 50: useState(localStorage.getItem('authToken') || '')
InitialToken(stored) == OrElse(stored, "")

Init ==
    /\ mode = "recording"
    /\ recordingFile = Null
    /\ transcript = ""
    /\ transcriptFileName = ""
    /\ meetingNotes = ""
    /\ additionalInstructions = DefaultInstructions
    /\ company = DefaultCompany
    /\ useAzure = TRUE
    /\ selectedModel = DefaultModel
    /\ verificationRounds = NumberValue(DefaultVerificationRounds)
    /\ useLanggraph = TRUE
    /\ compressAudio = TRUE
    /\ loading = FALSE
    /\ error = ""
    /\ reportId = ""
    /\ results = Null
    /\ selectedVerificationRound = 1
    /\ authUser = ""
    /\ authPassword = ""
    /\ authShowPassword = FALSE
    /\ localStorage \in StoredAtStartup
    /\ authToken = InitialToken(localStorage)
    /\ axiosAuth = Render(NullString, authToken)
    /\ pending = <<>>
    /\ reads = <<>>

\* the sequence s without its i-th element
RemoveAt(s, i) == SubSeq(s, 1, i - 1) \o SubSeq(s, i + 1, Len(s))

---------------------------------------------------------------------------
(* Event handlers (App.jsx 66-212).  A handler is the whole transition of  *)
(* one event: its state setters, its writes to localStorage and to axios'  *)
(* defaults, the call it starts, and the render that follows.              *)

\* the render after a handler that does not write the header itself
Rerender == axiosAuth' = Render(axiosAuth, authToken')

\* line 66-68
handleCompanyChange(field, value) ==
    /\ company' = [company EXCEPT ![field] = value]
    /\ UNCHANGED <<mode, recordingFile, transcript, transcriptFileName,
                   meetingNotes, additionalInstructions, optionVars, loading,
                   error, resultVars, signInVars, authToken, localStorage,
                   pending, reads>>
    /\ Rerender

\* A read under way: the file of a FileReader whose callbacks have not run
\* yet.  Besides the file it carries two history fields, which no handler
\* reads: cleared, set when Clear all runs while the read is under way, and
\* overtakenBy, the file of a later selection that has been loaded while
\* this read was under way (Null: none).
ReadOf(file) ==
    [name |-> file.name, text |-> file.text, cleared |-> FALSE,
     overtakenBy |-> Null]

\* the file a read is reading
FileOf(read) == [name |-> read.name, text |-> read.text]

\* the reads rs, each marked as under way during a Clear all
MarkCleared(rs) == [k \in 1..Len(rs) |-> [rs[k] EXCEPT !.cleared = TRUE]]

\* the reads left when the i-th read of rs has loaded: those started before
\* it are marked with the latest selection loaded so far
MarkOvertaken(rs, i) ==
    LET latest == IF rs[i].overtakenBy # Null THEN rs[i].overtakenBy
                  ELSE FileOf(rs[i])
        marked == [k \in 1..Len(rs) |->
                      IF k < i THEN [rs[k] EXCEPT !.overtakenBy = latest]
                      ELSE rs[k]]
    IN  RemoveAt(marked, i)

\* line 70-87, up to reader.readAsText(file)
handleTranscriptFile(file) ==
    /\ IF ~TruthyObject(file)
       THEN transcriptFileName' = "" /\ UNCHANGED reads
       ELSE reads' = Append(reads, ReadOf(file)) /\ UNCHANGED transcriptFileName
    /\ UNCHANGED <<mode, recordingFile, transcript, meetingNotes,
                   additionalInstructions, company, optionVars, loading,
                   error, resultVars, signInVars, authToken, localStorage,
                   pending>>
    /\ Rerender

\* line 76-82: reader.onload of the i-th read under way
readerOnload(i) ==
    /\ transcript' = reads[i].text
    /\ transcriptFileName' = reads[i].name
    /\ reads' = MarkOvertaken(reads, i)
    /\ UNCHANGED <<mode, recordingFile, meetingNotes, additionalInstructions,
                   company, optionVars, loading, error, resultVars,
                   signInVars, authToken, localStorage, pending>>
    /\ Rerender

\* an onerror that also drops the transcript held
readerOnerrorClearing(i) ==
    /\ error' = "Unable to read transcript file."
    /\ transcript' = ""
    /\ transcriptFileName' = ""
    /\ reads' = RemoveAt(reads, i)
    /\ UNCHANGED <<mode, recordingFile, meetingNotes, additionalInstructions,
                   company, optionVars, loading, resultVars, signInVars,
                   authToken, localStorage, pending>>
    /\ Rerender

\* line 83-85: reader.onerror of the i-th read under way
readerOnerror(i) ==
    /\ error' = "Unable to read transcript file."
    /\ reads' = RemoveAt(reads, i)
    /\ UNCHANGED <<draftVars, optionVars, loading, resultVars, signInVars,
                   authToken, localStorage, pending>>
    /\ Rerender

\* line 89-92
resetResults ==
    /\ reportId' = ""
    /\ results' = Null

\* line 94-119 without the setError('') of line 116
handleClearAllKeepingError ==
    /\ mode' = "transcript"
    /\ recordingFile' = Null
    /\ transcript' = ""
    /\ transcriptFileName' = ""
    /\ meetingNotes' = ""
    /\ additionalInstructions' = DefaultInstructions
    /\ company' = DefaultCompany
    /\ useAzure' = TRUE
    /\ selectedModel' = DefaultModel
    /\ verificationRounds' = NumberValue(DefaultVerificationRounds)
    /\ useLanggraph' = TRUE
    /\ compressAudio' = TRUE
    /\ selectedVerificationRound' = 1
    /\ resetResults
    /\ reads' = MarkCleared(reads)
    /\ UNCHANGED <<loading, error, signInVars, authToken, localStorage,
                   pending>>
    /\ Rerender

\* line 94-119
handleClearAll ==
    /\ mode' = "transcript"
    /\ recordingFile' = Null
    /\ transcript' = ""
    /\ transcriptFileName' = ""
    /\ meetingNotes' = ""
    /\ additionalInstructions' = DefaultInstructions
    /\ company' = DefaultCompany
    /\ useAzure' = TRUE
    /\ selectedModel' = DefaultModel
    /\ verificationRounds' = NumberValue(DefaultVerificationRounds)
    /\ useLanggraph' = TRUE
    /\ compressAudio' = TRUE
    /\ error' = ""
    /\ selectedVerificationRound' = 1
    /\ resetResults
    /\ reads' = MarkCleared(reads)
    /\ UNCHANGED <<loading, signInVars, authToken, localStorage, pending>>
    /\ Rerender

\* the checks of line 122-139 with the transcript tested without trim()
SubmitErrorUntrimmed ==
    IF ~Truthy(authToken)
    THEN "Please log in to generate a report."
    ELSE IF Len(missingFields(company)) # 0
    THEN "Missing required fields: " \o Join(missingFields(company), ", ")
    ELSE IF mode = "transcript" /\ ~Truthy(transcript)
    THEN "Please provide a transcript before generating the report."
    ELSE IF mode = "recording" /\ ~TruthyObject(recordingFile)
    THEN "Please upload a recording before generating the report."
    ELSE ""

\* the checks of line 122-139 with the required fields tested first
SubmitErrorFieldsFirst ==
    IF Len(missingFields(company)) # 0
    THEN "Missing required fields: " \o Join(missingFields(company), ", ")
    ELSE IF ~Truthy(authToken)
    THEN "Please log in to generate a report."
    ELSE IF mode = "transcript" /\ ~Truthy(Trim(transcript))
    THEN "Please provide a transcript before generating the report."
    ELSE IF mode = "recording" /\ ~TruthyObject(recordingFile)
    THEN "Please upload a recording before generating the report."
    ELSE ""

\* line 122-139: the message of the first precondition that fails, "" when
\* none does
SubmitError ==
    IF ~Truthy(authToken)
    THEN "Please log in to generate a report."
    ELSE IF Len(missingFields(company)) # 0
    THEN "Missing required fields: " \o Join(missingFields(company), ", ")
    ELSE IF mode = "transcript" /\ ~Truthy(Trim(transcript))
    THEN "Please provide a transcript before generating the report."
    ELSE IF mode = "recording" /\ ~TruthyObject(recordingFile)
    THEN "Please upload a recording before generating the report."
    ELSE ""

\* a rejection that also runs resetResults()
SubmitRejectedResetting ==
    /\ error' = SubmitError
    /\ resetResults
    /\ UNCHANGED <<draftVars, optionVars, loading, selectedVerificationRound,
                   signInVars, authToken, localStorage, pending, reads>>
    /\ Rerender

\* line 122-139: setError(...); return
SubmitRejected ==
    /\ error' = SubmitError
    /\ UNCHANGED <<draftVars, optionVars, loading, resultVars, signInVars,
                   authToken, localStorage, pending, reads>>
    /\ Rerender

\* the request of line 147-156 with verificationRounds sent as held
TranscriptRequestRawRounds ==
    [url |-> API_URL \o "/reports/from-transcript",
     authorization |-> axiosAuth,
     contentType |-> "json",
     body |-> [transcript |-> transcript,
               company_data |-> company,
               meeting_notes |-> meetingNotes,
               additional_instructions |-> additionalInstructions,
               use_azure |-> useAzure,
               selected_model |-> selectedModel,
               verification_rounds |-> verificationRounds,
               use_langgraph |-> useLanggraph]]

\* line 147-156: axios.post(`${API_URL}/reports/from-transcript`, {...})
TranscriptRequest ==
    [url |-> API_URL \o "/reports/from-transcript",
     authorization |-> axiosAuth,
     contentType |-> "json",
     body |-> [transcript |-> transcript,
               company_data |-> company,
               meeting_notes |-> meetingNotes,
               additional_instructions |-> additionalInstructions,
               use_azure |-> useAzure,
               selected_model |-> selectedModel,
               verification_rounds |-> Number(verificationRounds),
               use_langgraph |-> useLanggraph]]

\* the form of line 160-171 with the transcript appended as well
RecordingRequestWithTranscript ==
    [url |-> API_URL \o "/reports/from-recording",
     authorization |-> axiosAuth,
     contentType |-> "multipart",
     body |-> [file |-> recordingFile,
               transcript |-> transcript,
               company_data |-> JsonCompany(company),
               meeting_notes |-> meetingNotes,
               additional_instructions |-> additionalInstructions,
               use_azure |-> BoolString(useAzure),
               selected_model |-> selectedModel,
               verification_rounds |-> ValueString(verificationRounds),
               compress_audio |-> BoolString(compressAudio),
               use_langgraph |-> BoolString(useLanggraph)]]

\* line 160-171: axios.post(`${API_URL}/reports/from-recording`, formData)
RecordingRequest ==
    [url |-> API_URL \o "/reports/from-recording",
     authorization |-> axiosAuth,
     contentType |-> "multipart",
     body |-> [file |-> recordingFile,
               company_data |-> JsonCompany(company),
               meeting_notes |-> meetingNotes,
               additional_instructions |-> additionalInstructions,
               use_azure |-> BoolString(useAzure),
               selected_model |-> selectedModel,
               verification_rounds |-> ValueString(verificationRounds),
               compress_audio |-> BoolString(compressAudio),
               use_langgraph |-> BoolString(useLanggraph)]]

\* line 146, 159: the request of the current mode
SubmitRequest ==
    IF mode = "transcript" THEN TranscriptRequest ELSE RecordingRequest

\* line 44-45: the reportId and results of the render whose handler runs;
\* the handler's closure keeps them while its call is outstanding
HeldResult == [reportId |-> reportId, results |-> results]

\* line 141-174 up to the await, without the resetResults() of line 144
SubmitAcceptedKeeping ==
    /\ Len(pending) < MaxPending
    /\ loading' = TRUE
    /\ error' = ""
    /\ pending' = Append(pending, [kind |-> "submit", request |-> SubmitRequest,
                                   held |-> HeldResult])
    /\ UNCHANGED <<draftVars, optionVars, resultVars, signInVars, authToken,
                   localStorage, reads>>
    /\ Rerender

\* line 141-174, up to the await
SubmitAccepted ==
    /\ Len(pending) < MaxPending
    /\ loading' = TRUE
    /\ error' = ""
    /\ resetResults
    /\ pending' = Append(pending, [kind |-> "submit", request |-> SubmitRequest,
                                   held |-> HeldResult])
    /\ UNCHANGED <<draftVars, optionVars, selectedVerificationRound,
                   signInVars, authToken, localStorage, reads>>
    /\ Rerender

\* line 121-180, up to the await
handleSubmit ==
    IF SubmitError # "" THEN SubmitRejected ELSE SubmitAccepted

\* a success branch without the setReportId of line 157 / 172
submitResolvedNoReportId(i, data) ==
    /\ results' = data.results
    /\ loading' = FALSE
    /\ pending' = RemoveAt(pending, i)
    /\ UNCHANGED <<draftVars, optionVars, error, reportId,
                   selectedVerificationRound, signInVars, authToken,
                   localStorage, reads>>
    /\ Rerender

\* a success branch that also clears the error
submitResolvedClearingError(i, data) ==
    /\ reportId' = data.report_id
    /\ results' = data.results
    /\ loading' = FALSE
    /\ error' = ""
    /\ pending' = RemoveAt(pending, i)
    /\ UNCHANGED <<draftVars, optionVars, selectedVerificationRound,
                   signInVars, authToken, localStorage, reads>>
    /\ Rerender

\* line 157-158 / 172-173 and 177-179: the i-th call, a report call, resolves
\* with response.data = data
submitResolved(i, data) ==
    /\ reportId' = data.report_id
    /\ results' = data.results
    /\ loading' = FALSE
    /\ pending' = RemoveAt(pending, i)
    /\ UNCHANGED <<draftVars, optionVars, error, selectedVerificationRound,
                   signInVars, authToken, localStorage, reads>>
    /\ Rerender

\* a catch block that shows the transport message only
FailureMessageTransport(err) == err.message

\* line 176, 199: err.response?.data?.detail || err.message
FailureMessage(err) == OrElse(err.detail, err.message)

\* a catch block that also signs the user out
submitRejectedSigningOut(i, err) ==
    /\ error' = FailureMessage(err)
    /\ loading' = FALSE
    /\ pending' = RemoveAt(pending, i)
    /\ authToken' = ""
    /\ localStorage' = NullString
    /\ axiosAuth' = NullString
    /\ UNCHANGED <<draftVars, optionVars, resultVars, signInVars, reads>>

\* line 175-176 without the finally block of line 177-179
submitRejectedNoFinally(i, err) ==
    /\ error' = FailureMessage(err)
    /\ pending' = RemoveAt(pending, i)
    /\ UNCHANGED <<draftVars, optionVars, loading, resultVars, signInVars,
                   authToken, localStorage, reads>>
    /\ Rerender

\* line 175-179: the i-th call, a report call, rejects with err
submitRejected(i, err) ==
    /\ error' = FailureMessage(err)
    /\ loading' = FALSE
    /\ pending' = RemoveAt(pending, i)
    /\ UNCHANGED <<draftVars, optionVars, resultVars, signInVars, authToken,
                   localStorage, reads>>
    /\ Rerender

\* line 190-193
LoginRequest ==
    [url |-> API_URL \o "/auth/login",
     authorization |-> axiosAuth,
     contentType |-> "json",
     body |-> [username |-> authUser, password |-> authPassword]]

\* line 182-193 up to the await, the two fields tested without trim()
handleLoginUntrimmed ==
    IF ~Truthy(authUser) \/ ~Truthy(authPassword)
    THEN /\ error' = "Enter both username and password."
         /\ UNCHANGED <<draftVars, optionVars, loading, resultVars,
                        signInVars, authToken, localStorage, pending, reads>>
         /\ Rerender
    ELSE /\ Len(pending) < MaxPending
         /\ loading' = TRUE
         /\ error' = ""
         /\ pending' = Append(pending, [kind |-> "login", request |-> LoginRequest,
                                        held |-> HeldResult])
         /\ UNCHANGED <<draftVars, optionVars, resultVars, signInVars,
                        authToken, localStorage, reads>>
         /\ Rerender

\* line 182-193, up to the await
handleLogin ==
    IF ~Truthy(Trim(authUser)) \/ ~Truthy(Trim(authPassword))
    THEN /\ error' = "Enter both username and password."
         /\ UNCHANGED <<draftVars, optionVars, loading, resultVars,
                        signInVars, authToken, localStorage, pending, reads>>
         /\ Rerender
    ELSE /\ Len(pending) < MaxPending
         /\ loading' = TRUE
         /\ error' = ""
         /\ pending' = Append(pending, [kind |-> "login", request |-> LoginRequest,
                                        held |-> HeldResult])
         /\ UNCHANGED <<draftVars, optionVars, resultVars, signInVars,
                        authToken, localStorage, reads>>
         /\ Rerender

\* a success branch without the localStorage.setItem of line 196
loginResolvedNotStored(i, token) ==
    /\ authToken' = token
    /\ axiosAuth' = Render("Bearer " \o JsString(token), token)
    /\ loading' = FALSE
    /\ pending' = RemoveAt(pending, i)
    /\ UNCHANGED <<draftVars, optionVars, error, resultVars, signInVars,
                   localStorage, reads>>

\* line 194-197 and 200-202: the i-th call, a login call, resolves with
\* response.data.access_token = token
loginResolved(i, token) ==
    /\ authToken' = token
    /\ localStorage' = JsString(token)
    /\ axiosAuth' = Render("Bearer " \o JsString(token), token)
    /\ loading' = FALSE
    /\ pending' = RemoveAt(pending, i)
    /\ UNCHANGED <<draftVars, optionVars, error, resultVars, signInVars,
                   reads>>

\* line 198-202: the i-th call, a login call, rejects with err
loginRejected(i, err) ==
    /\ error' = FailureMessage(err)
    /\ loading' = FALSE
    /\ pending' = RemoveAt(pending, i)
    /\ UNCHANGED <<draftVars, optionVars, resultVars, signInVars, authToken,
                   localStorage, reads>>
    /\ Rerender

\* line 205-212 without the localStorage.removeItem of line 207
handleLogoutKeepingStore ==
    /\ authToken' = ""
    /\ axiosAuth' = Render(NullString, authToken')
    /\ authUser' = ""
    /\ authPassword' = ""
    /\ authShowPassword' = FALSE
    /\ UNCHANGED <<draftVars, optionVars, loading, error, resultVars,
                   localStorage, pending, reads>>

\* line 205-212
handleLogout ==
    /\ authToken' = ""
    /\ localStorage' = NullString
    /\ axiosAuth' = Render(NullString, authToken')
    /\ authUser' = ""
    /\ authPassword' = ""
    /\ authShowPassword' = FALSE
    /\ UNCHANGED <<draftVars, optionVars, loading, error, resultVars,
                   pending, reads>>

---------------------------------------------------------------------------
(* The rendered controls (App.jsx 259-777): which handler an event reaches *)
(* in which state.  The sign-in card is rendered when authToken is falsy,  *)
(* the settings and create-report cards when it is truthy, the output card *)
(* when results and authToken are both truthy.                             *)

SignInShown == ~Truthy(authToken)

StudioShown == Truthy(authToken)

\* an output card rendered whenever results are held
OutputShownUngated == TruthyObject(results)

OutputShown == TruthyObject(results) /\ Truthy(authToken)

\* line 660: the round buttons and the panel of the selected round
RoundPanelShown == OutputShown /\ verificationRoundsCount > 0

\* line 752-761: the Revision Summary block
RevisionShown == RoundPanelShown /\ Truthy(revisionSummary)

\* line 663-665: the Round n buttons rendered, and the highlighted ones
roundNumbers == 1..verificationRoundsCount

isActive(roundNumber) == roundNumber = selectedVerificationRound

Count(b) == IF b THEN 1 ELSE 0

\* The weight of the state against MaxDirty: a file read under way, a
\* transcript, a user name, a password and a round count entered count 1
\* each, any other workflow setting, the notes, the instructions and the
\* show-password box changed count 2 each
Dirty(tr, notes, instr, az, model, rounds, lg, ca, rd, user, pw, show) ==
    Count(tr # "") + Len(rd) + Count(user # "") + Count(pw # "")
    + Count(rounds # NumberValue(DefaultVerificationRounds))
    + 2 * ( Count(notes # "") + Count(instr # DefaultInstructions)
            + Count(~az) + Count(model # DefaultModel)
            + Count(~lg) + Count(~ca) + Count(show) )

\* an edit stays within MaxDirty
WithinBounds ==
    Dirty(transcript', meetingNotes', additionalInstructions',
          useAzure', selectedModel', verificationRounds', useLanggraph',
          compressAudio', reads', authUser', authPassword',
          authShowPassword') <= MaxDirty

\* a plain setter of one report-form field: everything else is kept
FormFrame ==
    /\ UNCHANGED <<loading, error, resultVars, signInVars, authToken,
                   localStorage, pending, reads>>
    /\ Rerender

\* line 274-278
ChangeAuthUser ==
    /\ SignInShown
    /\ \E v \in UserInputs : v # authUser /\ authUser' = v
    /\ UNCHANGED <<draftVars, optionVars, loading, error, resultVars,
                   authPassword, authShowPassword, authToken, localStorage,
                   pending, reads>>
    /\ Rerender
    /\ WithinBounds

\* line 282-287
ChangeAuthPassword ==
    /\ SignInShown
    /\ \E v \in PasswordInputs : v # authPassword /\ authPassword' = v
    /\ UNCHANGED <<draftVars, optionVars, loading, error, resultVars,
                   authUser, authShowPassword, authToken, localStorage,
                   pending, reads>>
    /\ Rerender
    /\ WithinBounds

\* line 289-294
ToggleShowPassword ==
    /\ SignInShown
    /\ authShowPassword' = ~authShowPassword
    /\ UNCHANGED <<draftVars, optionVars, loading, error, resultVars,
                   authUser, authPassword, authToken, localStorage,
                   pending, reads>>
    /\ Rerender
    /\ WithinBounds

\* line 300: the Sign in button, disabled={loading}
ClickSignIn ==
    /\ SignInShown /\ ~loading
    /\ handleLogin

\* line 344-349
ToggleUseAzure ==
    /\ StudioShown
    /\ useAzure' = ~useAzure
    /\ FormFrame
    /\ UNCHANGED <<draftVars, selectedModel, verificationRounds,
                   useLanggraph, compressAudio>>
    /\ WithinBounds

\* line 353-358
ToggleUseLanggraph ==
    /\ StudioShown
    /\ useLanggraph' = ~useLanggraph
    /\ FormFrame
    /\ UNCHANGED <<draftVars, useAzure, selectedModel, verificationRounds,
                   compressAudio>>
    /\ WithinBounds

\* line 362-368: disabled={mode !== 'recording'}
ToggleCompressAudio ==
    /\ StudioShown /\ mode = "recording"
    /\ compressAudio' = ~compressAudio
    /\ FormFrame
    /\ UNCHANGED <<draftVars, useAzure, selectedModel, verificationRounds,
                   useLanggraph>>
    /\ WithinBounds

\* line 373-379: setVerificationRounds(event.target.value)
ChangeVerificationRounds ==
    /\ StudioShown
    /\ \E v \in RoundsInputs :
          /\ StringValue(v) # verificationRounds
          /\ verificationRounds' = StringValue(v)
    /\ FormFrame
    /\ UNCHANGED <<draftVars, useAzure, selectedModel, useLanggraph,
                   compressAudio>>
    /\ WithinBounds

\* line 383-391
ChangeSelectedModel ==
    /\ StudioShown
    /\ \E v \in Models : v # selectedModel /\ selectedModel' = v
    /\ FormFrame
    /\ UNCHANGED <<draftVars, useAzure, verificationRounds, useLanggraph,
                   compressAudio>>
    /\ WithinBounds

\* mode buttons that also run resetResults()
ClickModeResetting ==
    /\ StudioShown
    /\ \E m \in {"recording", "transcript"} : m # mode /\ mode' = m
    /\ resetResults
    /\ UNCHANGED <<recordingFile, transcript, transcriptFileName,
                   meetingNotes, additionalInstructions, company,
                   optionVars, loading, error, selectedVerificationRound,
                   signInVars, authToken, localStorage, pending, reads>>
    /\ Rerender

\* line 419-436: the Recording and Transcript buttons
ClickMode ==
    /\ StudioShown
    /\ \E m \in {"recording", "transcript"} : m # mode /\ mode' = m
    /\ FormFrame
    /\ UNCHANGED <<recordingFile, transcript, transcriptFileName,
                   meetingNotes, additionalInstructions, company,
                   optionVars>>

\* line 444-448: setRecordingFile(event.target.files?.[0] || null)
ChangeRecordingFile ==
    /\ StudioShown /\ mode = "recording"
    /\ \E f \in RecordingFiles \cup {Null} :
          f # recordingFile /\ recordingFile' = f
    /\ FormFrame
    /\ UNCHANGED <<mode, transcript, transcriptFileName, meetingNotes,
                   additionalInstructions, company, optionVars>>
    /\ WithinBounds

\* line 456-460
ChangeTranscriptFile ==
    /\ StudioShown /\ mode = "transcript"
    /\ \E f \in TranscriptFiles \cup {Null} : handleTranscriptFile(f)
    /\ WithinBounds

\* line 76-82
ReadLoaded ==
    /\ \E i \in 1..Len(reads) : readerOnload(i)

\* line 83-85
ReadFailed ==
    /\ \E i \in 1..Len(reads) : readerOnerror(i)

\* line 469-474
ChangeTranscript ==
    /\ StudioShown /\ mode = "transcript"
    /\ \E v \in TranscriptInputs : v # transcript /\ transcript' = v
    /\ FormFrame
    /\ UNCHANGED <<mode, recordingFile, transcriptFileName, meetingNotes,
                   additionalInstructions, company, optionVars>>
    /\ WithinBounds

\* line 479-528
ChangeCompany ==
    /\ StudioShown
    /\ \E e \in CompanyInputs :
          e[2] # company[e[1]] /\ handleCompanyChange(e[1], e[2])
    /\ WithinBounds

\* line 533-537
ChangeMeetingNotes ==
    /\ StudioShown
    /\ \E v \in NotesInputs : v # meetingNotes /\ meetingNotes' = v
    /\ FormFrame
    /\ UNCHANGED <<mode, recordingFile, transcript, transcriptFileName,
                   additionalInstructions, company, optionVars>>
    /\ WithinBounds

\* line 541-545
ChangeAdditionalInstructions ==
    /\ StudioShown
    /\ \E v \in InstructionInputs :
          v # additionalInstructions /\ additionalInstructions' = v
    /\ FormFrame
    /\ UNCHANGED <<mode, recordingFile, transcript, transcriptFileName,
                   meetingNotes, company, optionVars>>
    /\ WithinBounds

\* a Generate Report button that is never disabled
ClickGenerateEnabled ==
    /\ StudioShown
    /\ handleSubmit

\* line 550-555: the Generate Report button, disabled={loading}
ClickGenerate ==
    /\ StudioShown /\ ~loading
    /\ handleSubmit

\* line 568-576: the Clear All Fields button, disabled={loading}
ClickClearAll ==
    /\ StudioShown /\ ~loading
    /\ handleClearAll

\* line 577-585: the Log out button, disabled={loading}
ClickLogout ==
    /\ StudioShown /\ ~loading
    /\ handleLogout

\* line 660-681: the Round n buttons
ClickRound ==
    /\ OutputShown /\ verificationRoundsCount > 0
    /\ \E n \in 1..verificationRoundsCount :
          /\ n # selectedVerificationRound
          /\ selectedVerificationRound' = n
    /\ UNCHANGED <<draftVars, optionVars, loading, error, reportId, results,
                   signInVars, authToken, localStorage, pending, reads>>
    /\ Rerender

\* the service answers a report call
SubmitResolves ==
    /\ \E i \in 1..Len(pending), data \in ReportResponses :
          pending[i].kind = "submit" /\ submitResolved(i, data)

\* a report call fails
SubmitRejects ==
    /\ \E i \in 1..Len(pending), err \in Failures :
          pending[i].kind = "submit" /\ submitRejected(i, err)

\* the service answers a login call
LoginResolves ==
    /\ \E i \in 1..Len(pending), token \in LoginTokens :
          pending[i].kind = "login" /\ loginResolved(i, token)

\* a login call fails
LoginRejects ==
    /\ \E i \in 1..Len(pending), err \in Failures :
          pending[i].kind = "login" /\ loginRejected(i, err)

\* a call settles
Settle == SubmitResolves \/ SubmitRejects \/ LoginResolves \/ LoginRejects

UserEvent ==
    \/ ChangeAuthUser \/ ChangeAuthPassword \/ ToggleShowPassword
    \/ ClickSignIn
    \/ ToggleUseAzure \/ ToggleUseLanggraph \/ ToggleCompressAudio
    \/ ChangeVerificationRounds \/ ChangeSelectedModel
    \/ ClickMode \/ ChangeRecordingFile \/ ChangeTranscriptFile
    \/ ChangeTranscript \/ ChangeCompany \/ ChangeMeetingNotes
    \/ ChangeAdditionalInstructions
    \/ ClickGenerate \/ ClickClearAll \/ ClickLogout \/ ClickRound

Next == UserEvent \/ ReadLoaded \/ ReadFailed \/ Settle

Spec == Init /\ [][Next]_vars

---------------------------------------------------------------------------
(* Other specifications. *)

\* handleSubmit called as a function (by a test of the handler, or by a port
\* of it to a transition function of state and event), whatever is rendered
SubmitDirectly == handleSubmit

\* handleSubmit reached without a credential: the Generate Report button is
\* not rendered then, so only a direct call gets to the guard of line 122
SubmitSignedOut == SignInShown /\ SubmitDirectly

NextH == Next \/ SubmitSignedOut

\* the application, with handleSubmit also called while signed out
SpecH == Init /\ [][NextH]_vars

\* the application, every outstanding call settling eventually
SpecFair == Init /\ [][Next]_vars /\ WF_vars(Settle)

\* The page is loaded again: App is constructed anew (line 21-50) over the
\* persisted store; the calls and file reads of the old page are dropped
Reload ==
    /\ mode' = "recording"
    /\ recordingFile' = Null
    /\ transcript' = ""
    /\ transcriptFileName' = ""
    /\ meetingNotes' = ""
    /\ additionalInstructions' = DefaultInstructions
    /\ company' = DefaultCompany
    /\ useAzure' = TRUE
    /\ selectedModel' = DefaultModel
    /\ verificationRounds' = NumberValue(DefaultVerificationRounds)
    /\ useLanggraph' = TRUE
    /\ compressAudio' = TRUE
    /\ loading' = FALSE
    /\ error' = ""
    /\ reportId' = ""
    /\ results' = Null
    /\ selectedVerificationRound' = 1
    /\ authUser' = ""
    /\ authPassword' = ""
    /\ authShowPassword' = FALSE
    /\ localStorage' = localStorage
    /\ authToken' = InitialToken(localStorage)
    /\ axiosAuth' = Render(NullString, authToken')
    /\ pending' = <<>>
    /\ reads' = <<>>

NextReload == Next \/ Reload

\* the application, with reloads of the page
SpecReload == Init /\ [][NextReload]_vars

\* texts of a company field: empty, whitespace only, plain, padded
ProfileTexts == {"", " \t", "x", " x "}

\* Every CompanyProfile over ProfileTexts, in an otherwise freshly
\* constructed, signed-in application
InitProfiles ==
    /\ mode = "recording"
    /\ recordingFile = Null
    /\ transcript = ""
    /\ transcriptFileName = ""
    /\ meetingNotes = ""
    /\ additionalInstructions = DefaultInstructions
    /\ company \in [CompanyFields -> ProfileTexts]
    /\ useAzure = TRUE
    /\ selectedModel = DefaultModel
    /\ verificationRounds = NumberValue(DefaultVerificationRounds)
    /\ useLanggraph = TRUE
    /\ compressAudio = TRUE
    /\ loading = FALSE
    /\ error = ""
    /\ reportId = ""
    /\ results = Null
    /\ selectedVerificationRound = 1
    /\ authUser = ""
    /\ authPassword = ""
    /\ authShowPassword = FALSE
    /\ localStorage = "t1"
    /\ authToken = InitialToken(localStorage)
    /\ axiosAuth = Render(NullString, authToken)
    /\ pending = <<>>
    /\ reads = <<>>

\* missingFields and the submit that uses it, on every profile
SpecProfiles == InitProfiles /\ [][SubmitDirectly]_vars

---------------------------------------------------------------------------
(* The properties.  The preconditions of a submission are stated here from *)
(* the characters of the texts, not through trim() or missingFields.       *)

\* s has a character that is not white space
HasText(s) == \E i \in 1..Len(s) : SubSeq(s, i, i) \notin WhiteSpace

CredentialPresent == authToken \notin {"", NullString, Undefined}

ProfileComplete == \A f \in CompanyFields : HasText(company[f])

PayloadExists ==
    /\ mode = "transcript" => HasText(transcript)
    /\ mode = "recording" => recordingFile # Null

SubmitPreconditions == CredentialPresent /\ ProfileComplete /\ PayloadExists

\* the report calls among the outstanding calls p
ReportCalls(p) == {i \in 1..Len(p) : p[i].kind = "submit"}

ReportEndpoints ==
    {API_URL \o "/reports/from-transcript", API_URL \o "/reports/from-recording"}

\* this step issues a call to a report-generation endpoint
ReportCallIssued ==
    /\ Len(pending') = Len(pending) + 1
    /\ pending'[Len(pending')].request.url \in ReportEndpoints

\* C1: every call to a report-generation endpoint is issued from a state in
\* which the credential is present, no required field is blank and the
\* payload of the mode exists; a submit attempt in any other state issues
\* no call at all.
C1_CallsOnlyWhenPreconditionsHold ==
    [][ /\ ReportCallIssued => SubmitPreconditions
        /\ (handleSubmit /\ ~SubmitPreconditions) => pending' = pending ]_vars

\* a report call is outstanding, issued from the pasted transcript
C1_Witness ==
    \E i \in ReportCalls(pending) :
        /\ pending[i].request.url = API_URL \o "/reports/from-transcript"
        /\ pending[i].request.body.transcript = "Hello world"

\* the message the order credential, required fields, payload asks for
FirstFailure ==
    IF ~CredentialPresent
    THEN "Please log in to generate a report."
    ELSE IF ~ProfileComplete
    THEN "Missing required fields: " \o Join(missingFields(company), ", ")
    ELSE IF mode = "transcript"
    THEN "Please provide a transcript before generating the report."
    ELSE "Please upload a recording before generating the report."

\* C2: a submit attempt that fails a precondition sets as error the message
\* of the first failing precondition in the order credential, required
\* fields, payload of the mode.
C2_FirstFailingMessage ==
    [][ (handleSubmit /\ ~SubmitPreconditions) => error' = FirstFailure ]_vars

\* signed out with required fields blank as well: the log-in message wins
C2_Witness ==
    /\ error = "Please log in to generate a report."
    /\ ~CredentialPresent
    /\ ~ProfileComplete

Labels ==
    <<"Company name", "Country", "Consultation date", "Experts",
      "Customer manager", "Consultation type">>

Keys ==
    <<"company_name", "country", "consultation_date", "experts",
      "customer_manager", "consultation_type">>

\* the place of a label in the declared order
Place(label) == CHOOSE k \in 1..Len(Labels) : Labels[k] = label

\* C3: missingFields returns exactly the labels of the fields that are empty
\* after trimming (only white space counts as empty), in the declared order,
\* without duplicates.
C3_MissingFieldsExact ==
    LET out == missingFields(company)
    IN  /\ \A j \in 1..Len(out) : \E k \in 1..Len(Labels) : out[j] = Labels[k]
        /\ \A k \in 1..Len(Keys) :
               ~HasText(company[Keys[k]])
                   <=> \E j \in 1..Len(out) : out[j] = Labels[k]
        /\ \A i, j \in 1..Len(out) : i < j => Place(out[i]) < Place(out[j])

\* a profile with a white-space country between padded and plain fields, and
\* the submit that reports it
C3_Witness ==
    /\ company.country = " \t"
    /\ company.company_name = " x "
    /\ error = "Missing required fields: Country"

\* C4: a submit attempt rejected by a local precondition changes only the
\* error message: reportId, results, the selected round, loading, the
\* draft, the profile, the settings and the credential stay as they were.
C4_RejectionChangesOnlyError ==
    [][ (handleSubmit /\ ~SubmitPreconditions)
            => UNCHANGED <<draftVars, optionVars, loading, resultVars,
                           signInVars, credVars, pending, reads>> ]_vars

\* a report is held and a later attempt, with no recording chosen, has been
\* rejected
C4_Witness ==
    /\ TruthyObject(results)
    /\ reportId # ""
    /\ error = "Please upload a recording before generating the report."

\* C5: a submit attempt that passes the preconditions sets loading, clears
\* error, reportId and results, and issues exactly one call; a call is
\* issued only by a click on Generate Report or Sign in, and a failing
\* report call leaves no call behind it (no automatic retry).
C5_AcceptedSubmit ==
    [][ /\ (handleSubmit /\ SubmitPreconditions)
               => /\ loading'
                  /\ error' = ""
                  /\ reportId' = ""
                  /\ results' = Null
                  /\ ReportCallIssued
                  /\ SubSeq(pending', 1, Len(pending)) = pending
        /\ ReportCallIssued => ClickGenerate
        /\ Len(pending') > Len(pending) => (ClickGenerate \/ ClickSignIn)
        /\ SubmitRejects => (pending' = <<>> /\ error' # "") ]_vars

\* a second submission is under way: the report held when it started is
\* cleared already
C5_Witness ==
    /\ loading
    /\ error = ""
    /\ reportId = ""
    /\ results = Null
    /\ Len(pending) = 1
    /\ pending[1].kind = "submit"
    /\ TruthyObject(pending[1].held.results)

\* C6: at most one call is outstanding, and loading is true while it is, so
\* that the Generate Report and Sign in buttons are disabled.
C6_OneOutstandingCall ==
    /\ Len(pending) <= 1
    /\ Len(pending) = 1 => loading

\* a call is outstanding in a state whose form would pass every check of a
\* further submit
C6_Witness ==
    /\ Len(pending) = 1
    /\ StudioShown
    /\ SubmitPreconditions

\* C7: with every call settling eventually, loading = true leads to
\* loading = false; loading goes from true to false in the steps that
\* settle the outstanding call and in no others.
C7_LoadingClearedOnSettle ==
    /\ loading ~> ~loading
    /\ [][ (loading /\ ~loading') <=> Len(pending') < Len(pending) ]_vars

\* a report call has failed and loading is false again
C7_Witness ==
    /\ ~loading
    /\ pending = <<>>
    /\ error = "Network Error"
    /\ StudioShown

\* C8: a failed submission preserves the previous report: when a report
\* call fails, reportId and results equal the values held when its
\* submission started.
C8_FailurePreservesHeldResult ==
    [][ \A i \in ReportCalls(pending), err \in Failures :
            submitRejected(i, err)
                => /\ reportId' = pending[i].held.reportId
                   /\ results' = pending[i].held.results ]_vars

\* C9: whenever a successful submission stores a new result, the selected
\* round is 1 at that moment.
C9_SelectedRoundOneOnNewResult ==
    [][ SubmitResolves => selectedVerificationRound' = 1 ]_vars

\* What the code does where C9 asks for round 1: a successful submission
\* leaves the selected round as it was, and the selected round changes only
\* by a click on a round button or on Clear all.
C9_SelectedRoundKept ==
    [][ /\ SubmitResolves
               => selectedVerificationRound' = selectedVerificationRound
        /\ selectedVerificationRound' # selectedVerificationRound
               => (ClickRound \/ ClickClearAll) ]_vars

\* a result of one round is shown while round 2, chosen on the result
\* before it, is still the selected one
C9_Witness ==
    /\ TruthyObject(results)
    /\ verificationRoundsCount = 1
    /\ selectedVerificationRound = 2

\* C10: on a successful submission reportId and results become exactly the
\* report_id and results of the response, so that verificationRoundsCount is
\* the length of its verification_history; the response r1, one round of
\* score 8, gives count 1 and activeVerification.score 8.
C10_ResponseStoredVerbatim ==
    /\ [][ \A i \in ReportCalls(pending), data \in ReportResponses :
               submitResolved(i, data)
                   => /\ reportId' = data.report_id
                      /\ results' = data.results
                      /\ verificationRoundsCount'
                             = Len(data.results.verification_history) ]_vars
    /\ [](reportId = "r1"
              => /\ results = ReportResponseBare("r1", 1).results
                 /\ verificationRoundsCount = 1
                 /\ activeVerification.score = 8)

\* the response r1 is stored and shown
C10_Witness ==
    /\ reportId = "r1"
    /\ OutputShown
    /\ selectedVerificationRound = 1
    /\ verificationRoundsCount = 1
    /\ activeVerification.score = 8

\* the calls of either kind among the outstanding calls
Calls(p) == 1..Len(p)

\* C11: when a report call or a login call fails, error becomes the detail
\* message of the service if the failure carries one, otherwise the
\* transport message, whatever error held before.
C11_FailureMessageShown ==
    [][ \A i \in Calls(pending), err \in Failures :
            (submitRejected(i, err) \/ loginRejected(i, err))
                => error' = IF err.detail # Undefined THEN err.detail
                            ELSE err.message ]_vars

\* a call has failed with a detail message of the service, which is the one
\* error shown
C11_Witness ==
    /\ error = "Invalid or expired token"
    /\ ~loading
    /\ pending = <<>>

\* C12: with N > 0 verification rounds, a selected round above N shows the
\* latest round and a selected round in 1..N shows that round; the selected
\* round itself is not clamped.
C12_FallbackToLatest ==
    /\ LET N == verificationRoundsCount
       IN  /\ (N > 0 /\ selectedVerificationRound > N)
                  => activeVerification = results.verification_history[N]
           /\ selectedVerificationRound \in 1..N
                  => activeVerification
                         = results.verification_history[selectedVerificationRound]
    /\ \A data \in ReportResponses, round \in 1..(MaxRounds + 1) :
           LET h == data.results.verification_history
           IN  /\ (Len(h) > 0 /\ round > Len(h))
                      => activeVerificationOf(data.results, round) = h[Len(h)]
               /\ round \in 1..Len(h)
                      => activeVerificationOf(data.results, round) = h[round]

\* round 2 is selected on a result of one round: its round 1 is shown
C12_Witness ==
    /\ OutputShown
    /\ selectedVerificationRound > verificationRoundsCount
    /\ verificationRoundsCount > 0
    /\ activeVerification = VerificationRound(1)

\* entries of the revision history of the held result (none when the result
\* has no revision_history)
RevisionCount ==
    IF TruthyObject(results) /\ "revision_history" \in DOMAIN results
    THEN Len(results.revision_history)
    ELSE 0

\* C13: a selected round beyond the revision history (shorter than the
\* verification history, or missing) has no revision and shows no Revision
\* Summary, and selecting a round sets no error; a selected round whose
\* revision entry has a non-empty summary shows that summary.
C13_RevisionAbsentBeyondHistory ==
    /\ [](/\ selectedVerificationRound > RevisionCount
                 => (revisionSummary = Undefined /\ ~RevisionShown)
          /\ (RoundPanelShown /\ selectedVerificationRound \in 1..RevisionCount)
                 => LET text == results.revision_history
                                    [selectedVerificationRound].revision_summary
                    IN  text # "" => (RevisionShown /\ revisionSummary = text))
    /\ [][ClickRound => error' = error]_vars

\* round 2 of a result with two verification rounds and one revision is
\* selected: no revision is shown and no error is set
C13_Witness ==
    /\ RoundPanelShown
    /\ verificationRoundsCount = 2
    /\ RevisionCount = 1
    /\ selectedVerificationRound = 2
    /\ ~RevisionShown
    /\ error = ""

\* C14: Clear all restores every draft field and setting to its default (no
\* file, empty transcript, file name and notes, the fixed instructions, the
\* default profile, Azure on, the default model, 5 rounds, the graph
\* workflow on, compression on), selects round 1 and discards reportId,
\* results and error.
C14_ClearAllRestoresDefaults ==
    [][ ClickClearAll
            => /\ recordingFile' = Null
               /\ transcript' = ""
               /\ transcriptFileName' = ""
               /\ meetingNotes' = ""
               /\ additionalInstructions' = DefaultInstructions
               /\ company' = [company_name |-> "", country |-> "Finland",
                              consultation_date |-> "",
                              experts |-> "Umair Ali Khan, Janne Kauttonen",
                              customer_manager |-> "",
                              consultation_type |-> "Regular"]
               /\ useAzure'
               /\ selectedModel' = "gpt-5.1"
               /\ verificationRounds' = [type |-> "number", num |-> 5, den |-> 1]
               /\ useLanggraph'
               /\ compressAudio'
               /\ selectedVerificationRound' = 1
               /\ reportId' = ""
               /\ results' = Null
               /\ error' = "" ]_vars

\* the state Clear all leaves: every default, in transcript mode, signed in
C14_Witness ==
    /\ StudioShown
    /\ mode = "transcript"
    /\ recordingFile = Null
    /\ transcript = "" /\ transcriptFileName = "" /\ meetingNotes = ""
    /\ additionalInstructions = DefaultInstructions
    /\ company = DefaultCompany
    /\ useAzure /\ useLanggraph /\ compressAudio
    /\ selectedModel = DefaultModel
    /\ verificationRounds = NumberValue(DefaultVerificationRounds)
    /\ selectedVerificationRound = 1
    /\ reportId = "" /\ results = Null /\ error = ""

\* C15: the credential, in memory and in the persisted store, is written only
\* by a login call that resolves and by logout; every other step leaves both
\* unchanged.
C15_CredentialWrittenByLoginAndLogout ==
    [][ (authToken' # authToken \/ localStorage' # localStorage)
            => (LoginResolves \/ ClickLogout) ]_vars

\* a report call was rejected for its token and the credential is still held
C15_Witness ==
    /\ error = "Invalid or expired token"
    /\ authToken = "t1"
    /\ localStorage = "t1"
    /\ StudioShown

\* C16: logout clears the credential in memory, removes the persisted entry
\* and the default Authorization header and empties the entered user name
\* and password; the persisted entry stays absent until a login call
\* resolves, and a reload that finds it absent starts signed out.
C16_LogoutClearsCredential ==
    /\ [][ ClickLogout
               => /\ authToken' = ""
                  /\ localStorage' = NullString
                  /\ axiosAuth' = NullString
                  /\ authUser' = ""
                  /\ authPassword' = "" ]_vars
    /\ [][ (localStorage = NullString /\ ~LoginResolves)
               => localStorage' = NullString ]_vars
    /\ [][ (Reload /\ localStorage = NullString)
               => (authToken' = "" /\ SignInShown' /\ axiosAuth' = NullString) ]_vars

\* logged out with a report of the session still in state: nothing of the
\* credential is left
C16_Witness ==
    /\ TruthyObject(results)
    /\ authToken = ""
    /\ localStorage = NullString
    /\ axiosAuth = NullString
    /\ authUser = ""
    /\ authPassword = ""

\* C17: a login call that resolves with token t stores t in memory and under
\* the one persisted key; the credential held in memory is always the
\* persisted one, and a reload starts with the persisted token as credential.
C17_PersistedRoundTrip ==
    /\ [][ \A i \in Calls(pending), t \in LoginTokens \ {Undefined} :
               loginResolved(i, t) => (authToken' = t /\ localStorage' = t) ]_vars
    /\ [](Truthy(authToken) => localStorage = authToken)
    /\ [][ Reload
               => /\ localStorage' = localStorage
                  /\ localStorage # NullString => authToken' = localStorage ]_vars

\* signed in with the token of a login and an untouched sign-in form: the
\* page was reloaded after the login
C17_Witness ==
    /\ authToken = "t2"
    /\ localStorage = "t2"
    /\ axiosAuth = "Bearer t2"
    /\ authUser = ""
    /\ authPassword = ""

\* C18: a login with the user name or the password empty after trimming
\* sets the error 'Enter both username and password.', issues no call and
\* leaves loading false and the credential absent.
C18_LoginFailsFast ==
    [][ (ClickSignIn /\ (~HasText(authUser) \/ ~HasText(authPassword)))
            => /\ error' = "Enter both username and password."
               /\ pending' = pending
               /\ ~loading'
               /\ authToken' \in {"", NullString, Undefined}
               /\ localStorage' = localStorage ]_vars

\* a white-space user name with a password entered: rejected, nothing sent
C18_Witness ==
    /\ error = "Enter both username and password."
    /\ authUser = " "
    /\ authPassword = "pw"
    /\ ~loading
    /\ pending = <<>>
    /\ SignInShown

\* C19: the report is cleared on logout: right after a logout reportId is
\* empty and results is absent.
C19_LogoutClearsResult ==
    [][ ClickLogout => (reportId' = "" /\ results' = Null) ]_vars

\* signed out with the report of the session still in state, and a login
\* under way
C19_Witness ==
    /\ SignInShown
    /\ TruthyObject(results)
    /\ reportId # ""
    /\ Len(pending) = 1
    /\ pending[1].kind = "login"

C21_AuthenticationGate ==
    /\ [](~CredentialPresent
              => (SignInShown /\ ~StudioShown /\ ~OutputShown /\ ~RoundPanelShown))
    /\ [][ ~CredentialPresent
               => \/ ChangeAuthUser \/ ChangeAuthPassword \/ ToggleShowPassword
                  \/ ClickSignIn
                  \/ LoginResolves \/ LoginRejects
                  \/ ReadLoaded \/ ReadFailed ]_vars

\* signed out, nothing outstanding, with a result of the session in state
\* and not shown
C21_Witness ==
    /\ ~CredentialPresent
    /\ verificationRoundsCount > 0
    /\ ~OutputShown
    /\ ~loading
    /\ reads = <<>>

\* the request this step has issued
IssuedRequest == pending'[Len(pending')].request

\* C22: an accepted submit in transcript mode sends one JSON request to the
\* from-transcript endpoint with transcript, company profile, notes,
\* instructions, use_azure as a boolean, selected_model, verification_rounds
\* as a number and use_langgraph, and with no file and no compress_audio,
\* also when a recording is still held.
C22_TranscriptRequestShape ==
    [][ (ClickGenerate /\ SubmitPreconditions /\ mode = "transcript")
            => /\ Len(pending') = Len(pending) + 1
               /\ IssuedRequest.url = "http://localhost:8000/reports/from-transcript"
               /\ IssuedRequest.contentType = "json"
               /\ DOMAIN IssuedRequest.body
                      = {"transcript", "company_data", "meeting_notes",
                         "additional_instructions", "use_azure",
                         "selected_model", "verification_rounds",
                         "use_langgraph"}
               /\ IssuedRequest.body.transcript = transcript
               /\ IssuedRequest.body.company_data = company
               /\ IssuedRequest.body.meeting_notes = meetingNotes
               /\ IssuedRequest.body.additional_instructions
                      = additionalInstructions
               /\ IssuedRequest.body.use_azure \in BOOLEAN
               /\ IssuedRequest.body.use_azure = useAzure
               /\ IssuedRequest.body.selected_model = selectedModel
               /\ IssuedRequest.body.verification_rounds.type = "number"
               /\ IssuedRequest.body.use_langgraph = useLanggraph ]_vars

\* a transcript request is outstanding while a recording chosen earlier is
\* still held: the request has no file
C22_Witness ==
    /\ Len(pending) = 1
    /\ pending[1].kind = "submit"
    /\ pending[1].request.contentType = "json"
    /\ "file" \notin DOMAIN pending[1].request.body
    /\ pending[1].request.body.transcript = "Hello world"
    /\ recordingFile # Null

\* String(b) of a boolean, written out
TextOf(b) == IF b THEN "true" ELSE "false"

\* C23: an accepted submit in recording mode sends one multipart request to
\* the from-recording endpoint with the file, the company profile as JSON
\* text, notes, instructions and the options, compress_audio included, the
\* booleans and the round count as text, and never the transcript, also when
\* a transcript is still held.
C23_RecordingRequestShape ==
    [][ (ClickGenerate /\ SubmitPreconditions /\ mode = "recording")
            => /\ Len(pending') = Len(pending) + 1
               /\ IssuedRequest.url = "http://localhost:8000/reports/from-recording"
               /\ IssuedRequest.contentType = "multipart"
               /\ DOMAIN IssuedRequest.body
                      = {"file", "company_data", "meeting_notes",
                         "additional_instructions", "use_azure",
                         "selected_model", "verification_rounds",
                         "compress_audio", "use_langgraph"}
               /\ IssuedRequest.body.file = recordingFile
               /\ IssuedRequest.body.company_data
                      = "{\"company_name\":\"" \o company.company_name
                        \o "\",\"country\":\"" \o company.country
                        \o "\",\"consultation_date\":\"" \o company.consultation_date
                        \o "\",\"experts\":\"" \o company.experts
                        \o "\",\"customer_manager\":\"" \o company.customer_manager
                        \o "\",\"consultation_type\":\"" \o company.consultation_type
                        \o "\"}"
               /\ IssuedRequest.body.meeting_notes = meetingNotes
               /\ IssuedRequest.body.additional_instructions
                      = additionalInstructions
               /\ IssuedRequest.body.use_azure = TextOf(useAzure)
               /\ IssuedRequest.body.compress_audio = TextOf(compressAudio)
               /\ IssuedRequest.body.use_langgraph = TextOf(useLanggraph)
               /\ IssuedRequest.body.selected_model = selectedModel
               /\ IssuedRequest.body.verification_rounds
                      = (IF verificationRounds.type = "string"
                         THEN verificationRounds.value ELSE "5") ]_vars

\* a recording request is outstanding while a transcript typed earlier is
\* still held: the request has no transcript
C23_Witness ==
    /\ Len(pending) = 1
    /\ pending[1].kind = "submit"
    /\ pending[1].request.contentType = "multipart"
    /\ "transcript" \notin DOMAIN pending[1].request.body
    /\ pending[1].request.body.file = [name |-> "meeting.mp3"]
    /\ HasText(transcript)

\* a whole number between 1 and 5
RoundsInRange(v) == v.type = "number" /\ v.den = 1 /\ v.num \in 1..5

\* C24: in every state the verification round count, read as a number, is a
\* whole number between 1 and 5, and so is the round count of every report
\* request outstanding, whatever was entered in the rounds input.
C24_RoundsWithinRange ==
    /\ RoundsInRange(Number(verificationRounds))
    /\ \A i \in Calls(pending) :
          pending[i].kind = "submit"
              => IF pending[i].request.contentType = "json"
                 THEN RoundsInRange(pending[i].request.body.verification_rounds)
                 ELSE RoundsInRange(StringToNumber(
                          pending[i].request.body.verification_rounds))

\* a transcript request is outstanding with a round count of 7
C24_Witness ==
    /\ Len(pending) = 1
    /\ pending[1].kind = "submit"
    /\ pending[1].request.contentType = "json"
    /\ pending[1].request.body.verification_rounds = NumberValue(7)
    /\ verificationRounds = StringValue("7")

\* this step issues a login call
LoginCallIssued ==
    /\ Len(pending') = Len(pending) + 1
    /\ pending'[Len(pending')].kind = "login"

\* C25: every report call carries "Bearer " followed by the credential held
\* when the call is made, also when that credential was restored from the
\* store at startup; logout leaves no default header, none appears until a
\* login call succeeds, and a login call carries the default header of the
\* state that issues it, so the login call after a logout carries none.
C25_BearerHeader ==
    /\ [][ReportCallIssued
              => /\ CredentialPresent
                 /\ IssuedRequest.authorization = "Bearer " \o authToken]_vars
    /\ [][ClickLogout => axiosAuth' = NullString]_vars
    /\ [][(axiosAuth = NullString /\ axiosAuth' # NullString)
              => LoginResolves]_vars
    /\ [][LoginCallIssued => IssuedRequest.authorization = axiosAuth]_vars

\* a report call is outstanding with the credential restored at startup: the
\* sign-in form was never filled in
C25_Witness ==
    /\ Len(pending) = 1
    /\ pending[1].kind = "submit"
    /\ pending[1].request.authorization = "Bearer t1"
    /\ authToken = "t1"
    /\ authUser = ""
    /\ authPassword = ""

\* C26: a failed read of a transcript file sets the error to "Unable to read
\* transcript file." and leaves every other field as it was, the transcript
\* and its file name included; a successful read sets the transcript and the
\* file name together to the content and the name of the file read.
C26_FileReadOutcome ==
    /\ [][ReadFailed
              => /\ error' = "Unable to read transcript file."
                 /\ UNCHANGED <<draftVars, optionVars, loading, resultVars,
                                signInVars, credVars, pending>>]_vars
    /\ [][ReadLoaded
              => \E i \in Calls(reads) :
                    /\ transcript' = reads[i].text
                    /\ transcriptFileName' = reads[i].name]_vars

\* a read has failed while the transcript of an earlier file is held
C26_Witness ==
    /\ error = "Unable to read transcript file."
    /\ transcript = "Hello world"
    /\ transcriptFileName = "f1.txt"
    /\ reads = <<>>

C28_OneRoundHighlighted ==
    /\ [][ClickRound
              => /\ selectedVerificationRound' \in roundNumbers
                 /\ UNCHANGED <<draftVars, optionVars, loading, error,
                                reportId, results, signInVars, credVars,
                                pending, reads>>]_vars
    /\ [](verificationRoundsCount > 0
              => \E n \in roundNumbers :
                    /\ {k \in roundNumbers : isActive(k)} = {n}
                    /\ activeVerification = verificationHistory[n])

\* the round panel of a one-round result is shown with no button
\* highlighted, round 1 displayed
C28_Witness ==
    /\ RoundPanelShown
    /\ roundNumbers = {1}
    /\ {k \in roundNumbers : isActive(k)} = {}
    /\ activeVerification = verificationHistory[1]

\* C29: in every state the credential in memory is present exactly when an
\* authToken entry is stored, both then holding the same token, and a reload
\* never changes whether the user is signed in, also after a login call
\* answered without access_token.
C29_CredentialMatchesStore ==
    /\ []( /\ CredentialPresent <=> localStorage # NullString
           /\ CredentialPresent => localStorage = authToken )
    /\ [][Reload => (CredentialPresent' <=> CredentialPresent)]_vars

\* after a login answered without access_token and a reload, the studio is
\* open with the text "undefined" as credential
C29_Witness ==
    /\ StudioShown
    /\ authToken = "undefined"
    /\ localStorage = "undefined"
    /\ axiosAuth = "Bearer undefined"
    /\ pending = <<>>

\* C30: after a click on Clear all, mode, the files chosen, transcript and
\* its file name, notes, instructions, company profile, workflow options,
\* error, selected round, reportId and results each have the value they have
\* when the application starts.
C30_ClearAllIsStartupState ==
    [][ ClickClearAll
            => /\ mode' = "recording"
               /\ recordingFile' = Null
               /\ transcript' = ""
               /\ transcriptFileName' = ""
               /\ meetingNotes' = ""
               /\ additionalInstructions' = DefaultInstructions
               /\ company' = DefaultCompany
               /\ useAzure' = TRUE
               /\ selectedModel' = DefaultModel
               /\ verificationRounds' = NumberValue(DefaultVerificationRounds)
               /\ useLanggraph' = TRUE
               /\ compressAudio' = TRUE
               /\ error' = ""
               /\ selectedVerificationRound' = 1
               /\ reportId' = ""
               /\ results' = Null ]_vars

\* C31: a transcript-file read that was under way when Clear all ran never
\* repopulates the cleared draft: when such a read completes while
\* transcript and file name are still empty, they are empty afterwards.
C31_ClearAllNotUndoneByRead ==
    [][ \A i \in Calls(reads) :
            (/\ readerOnload(i)
             /\ reads[i].cleared
             /\ transcript = ""
             /\ transcriptFileName = "")
                => (transcript' = "" /\ transcriptFileName' = "") ]_vars

\* Clear all has run while a read of f1.txt was under way, and the draft is
\* empty with that read still to complete
C31_Witness ==
    /\ Len(reads) = 1
    /\ reads[1].cleared
    /\ reads[1].name = "f1.txt"
    /\ transcript = ""
    /\ transcriptFileName = ""
    /\ mode = "transcript"

\* C32: when the last read under way completes, transcript and file name
\* are those of the most recently selected file among the files loaded, in
\* whichever order the reads completed; and the file name is only ever set
\* by a completed read, to the name of the file whose content that read put
\* into the transcript, or emptied.
C32_LatestSelectionWins ==
    /\ [][ \A i \in Calls(reads) :
               (/\ readerOnload(i)
                /\ reads' = <<>>
                /\ reads[i].overtakenBy # Null)
                   => /\ transcript' = reads[i].overtakenBy.text
                      /\ transcriptFileName' = reads[i].overtakenBy.name ]_vars
    /\ [][ transcriptFileName' # transcriptFileName
               => \/ transcriptFileName' = ""
                  \/ \E i \in Calls(reads) :
                        /\ readerOnload(i)
                        /\ transcriptFileName' = reads[i].name
                        /\ transcript' = reads[i].text ]_vars

\* f2.txt, selected after f1.txt, has been loaded while the read of f1.txt
\* is still under way
C32_Witness ==
    /\ Len(reads) = 1
    /\ reads[1].name = "f1.txt"
    /\ reads[1].overtakenBy = [name |-> "f2.txt", text |-> "second"]
    /\ transcript = "second"
    /\ transcriptFileName = "f2.txt"

\* C33: in the state reached when a report call resolves and loading returns
\* to false, the error is empty, whatever happened while the call was
\* outstanding.
C33_SuccessEndsWithoutError ==
    [][ SubmitResolves => (loading' = FALSE /\ error' = "") ]_vars

\* C33, as the code has it: a resolving report call sets loading to false
\* and leaves the error as it is, which is empty or the message of a
\* transcript-file read that failed while the call was outstanding.
C33_SuccessLeavesError ==
    [][ SubmitResolves
            => /\ loading' = FALSE
               /\ error' = error
               /\ error' \in {"", "Unable to read transcript file."} ]_vars

\* a report has arrived and the message of a failed file read is shown
C33_Witness ==
    /\ OutputShown
    /\ reportId = "r2"
    /\ ~loading
    /\ pending = <<>>
    /\ error = "Unable to read transcript file."

=============================================================================
